---- MODULE Spec2Model ----
(***************************************************************************)
(* A model of the Portainer API client (src/src/client.ts): the request    *)
(* lifecycle of PortainerClient.request and getContainerLogs (timer,       *)
(* abort, status classification, body decoding), the write gate, and the   *)
(* Docker log demultiplexer stripDockerLogHeaders.                         *)
(*                                                                         *)
(* Strings that the code builds by interpolation are sequences of string   *)
(* tokens; a byte buffer is a sequence of integers in 0..255; decoded text *)
(* is a sequence of code-point tokens.                                     *)
(***************************************************************************)
EXTENDS Integers, Sequences, FiniteSets, TLC

VARIABLES
    ctorArgs,       \* the arguments the constructor was called with
    baseUrl,        \* PortainerClient.baseUrl
    apiKey,         \* PortainerClient.apiKey
    writeEnabled,   \* PortainerClient.writeEnabled
    slots,          \* one record per caller: the invocation it is running
    writeNetCalls,  \* fetches issued by mutating operations, client lifetime
    tool            \* the tool call the server is handling

vars == <<ctorArgs, baseUrl, apiKey, writeEnabled, slots, writeNetCalls, tool>>

(***************************************************************************)
(* Bounds of the model.                                                    *)
(***************************************************************************)
MaxCalls == 2
MaxFrames == 2
MaxBufLen == 9
MaxStacks == 2
MaxTrailing == 2

(***************************************************************************)
(* Program constants.                                                      *)
(***************************************************************************)
DefaultTimeout == 30000
LogsTimeout == 60000
DefaultTail == 100
MinTail == 1
MaxTail == 10000
HeaderSize == 8

Callers == {"a", "b"}

Undefined == <<>>
Some(x) == <<x>>

RECURSIVE Flatten(_)
Flatten(ss) == IF ss = <<>> THEN <<>> ELSE Head(ss) \o Flatten(Tail(ss))

\* s contains t as a contiguous subsequence
HasSubSeq(s, t) ==
    \E i \in 0..(Len(s) - Len(t)) : \A j \in 1..Len(t) : s[i + j] = t[j]

(***************************************************************************)
(* Errors.                                                                 *)
(***************************************************************************)
\* new PortainerClientError(message, code, statusCode?)
PortainerClientError(message, code, statusCode) ==
    [class |-> "PortainerClientError", name |-> "PortainerClientError",
     message |-> message, code |-> code, statusCode |-> statusCode]

\* any other thrown Error: only its name and text are ever read
OtherError(name, text) ==
    [class |-> "Error", name |-> name,
     message |-> <<text>>, code |-> Undefined, statusCode |-> Undefined]

HttpCode(status) == <<"HTTP_", ToString(status)>>

NoError == OtherError("", "")

(***************************************************************************)
(* Constructor.                                                            *)
(***************************************************************************)
RawBaseUrls == { <<"h">>, <<"h", "/">>, <<"h", "/", "/">> }
ApiKeys == {"key", "key2"}
WriteArgs == { Undefined, Some(FALSE), Some(TRUE) }

\* every trailing slash removed
RECURSIVE StripTrailingSlash_All(_)
StripTrailingSlash_All(url) ==
    IF Len(url) > 0 /\ url[Len(url)] = "/"
    THEN StripTrailingSlash_All(SubSeq(url, 1, Len(url) - 1)) ELSE url

\* baseUrl.replace(/\/$/, "")
StripTrailingSlash(url) ==
    IF Len(url) > 0 /\ url[Len(url)] = "/" THEN SubSeq(url, 1, Len(url) - 1) ELSE url

\* writeEnabled = false
WriteEnabledArg(arg) == IF arg = Undefined THEN FALSE ELSE arg[1]

(***************************************************************************)
(* Response bodies read as text, and JSON.parse.  A text is a token that   *)
(* stands for the body the remote sent; JsonParse is what JSON.parse makes *)
(* of it.                                                                  *)
(***************************************************************************)
Texts == { "", "{}", "{message:boom}", "{details:why}", "{message:'',details:why}",
           "{message:boom,details:why}", "not json", "null", "[]" }

\* a decoded JSON value: only the fields the client reads are kept; an array
\* of stacks has its elements in items, a stack has its Id and Name in stack
JsonValue(type, message, details) ==
    [type |-> type, message |-> message, details |-> details, text |-> "", chars |-> <<>>,
     items |-> <<>>, stack |-> <<>>, StackFileContent |-> Undefined]

EmptyObject == JsonValue("object", Undefined, Undefined)
TextValue(text) == [JsonValue("string", Undefined, Undefined) EXCEPT !.text = text]
\* the string getContainerLogs returns, as its sequence of code points
LogText(chars) == [JsonValue("string", Undefined, Undefined) EXCEPT !.chars = chars]
UndefinedValue == JsonValue("undefined", Undefined, Undefined)

\* the stacks GET /stacks can list: names that differ by case or by a suffix
StackNames == {"web", "webapp", "Web"}
StackLists ==
    UNION { { [i \in 1..n |-> [Id |-> i, Name |-> names[i]]] : names \in [1..n -> StackNames] }
            : n \in 0..MaxStacks }
\* the JSON text of a list of stacks
StackListText(list) == IF list = <<>> THEN "[]" ELSE ToString(list)
StackTexts == { StackListText(list) : list \in StackLists }
StackArray(list) == [JsonValue("array", Undefined, Undefined) EXCEPT !.items = list]
StackValue(stack) == [JsonValue("object", Undefined, Undefined) EXCEPT !.stack = <<stack>>]
\* the body of GET /stacks/{id}/file, and its value
StackFileText == "{StackFileContent:yaml}"
StackFile(content) ==
    [JsonValue("object", Undefined, Undefined) EXCEPT !.StackFileContent = Some(content)]

JsonParse(text) ==
    CASE text = "{}" -> [ok |-> TRUE, value |-> EmptyObject]
      [] text = "{message:boom}" ->
            [ok |-> TRUE, value |-> JsonValue("object", Some("boom"), Undefined)]
      [] text = "{details:why}" ->
            [ok |-> TRUE, value |-> JsonValue("object", Undefined, Some("why"))]
      [] text = "{message:'',details:why}" ->
            [ok |-> TRUE, value |-> JsonValue("object", Some(""), Some("why"))]
      [] text = "{message:boom,details:why}" ->
            [ok |-> TRUE, value |-> JsonValue("object", Some("boom"), Some("why"))]
      [] text = "null" -> [ok |-> TRUE, value |-> JsonValue("null", Undefined, Undefined)]
      [] text = StackFileText -> [ok |-> TRUE, value |-> StackFile("yaml")]
      [] text \in StackTexts ->
            [ok |-> TRUE,
             value |-> StackArray(CHOOSE list \in StackLists : StackListText(list) = text)]
      [] OTHER -> [ok |-> FALSE, value |-> UndefinedValue]

\* how an invocation ended: it returned a value or it threw an error
Returned(v) == [kind |-> "value", value |-> v, error |-> NoError]
Thrown(e) == [kind |-> "throw", value |-> UndefinedValue, error |-> e]
NoOutcome == [kind |-> "none", value |-> UndefinedValue, error |-> NoError]

\* JavaScript truthiness of an optional string property
Truthy(prop) == prop # Undefined /\ prop[1] # ""

(***************************************************************************)
(* PortainerClient.request, after the fetch has resolved.                  *)
(***************************************************************************)
ResponseOk(status) == status >= 200 /\ status <= 299

\* the message taken from details before message
ErrorMessage_DetailsFirst(status, path, errorBody) ==
    LET default == <<"Portainer API error: ", ToString(status)>>
        parsed == JsonParse(errorBody)
    IN  IF status = 401 THEN <<"Invalid API key or expired token">>
        ELSE IF status = 403 THEN <<"Insufficient permissions for this operation">>
        ELSE IF status = 404 THEN <<"Resource not found: ">> \o path
        ELSE IF ~parsed.ok \/ parsed.value.type = "null" THEN default
        ELSE IF Truthy(parsed.value.details) THEN parsed.value.details
        ELSE IF Truthy(parsed.value.message) THEN parsed.value.message
        ELSE default

\* client.ts 65-80: the message of an HTTP error
ErrorMessage(status, path, errorBody) ==
    LET default == <<"Portainer API error: ", ToString(status)>>
        parsed == JsonParse(errorBody)
    IN  IF status = 401 THEN <<"Invalid API key or expired token">>
        ELSE IF status = 403 THEN <<"Insufficient permissions for this operation">>
        ELSE IF status = 404 THEN <<"Resource not found: ">> \o path
        ELSE IF ~parsed.ok \/ parsed.value.type = "null" THEN default
        ELSE IF Truthy(parsed.value.message) THEN parsed.value.message
        ELSE IF Truthy(parsed.value.details) THEN parsed.value.details
        ELSE default

\* client.ts 63-87: what the try block throws once the error body is read
HttpError(status, path, errorBody) ==
    PortainerClientError(ErrorMessage(status, path, errorBody), HttpCode(status), Some(status))

\* the raw test made before the empty test
DecodeBody_RawFirst(text, raw) ==
    IF raw THEN Returned(TextValue(text))
    ELSE IF text = "" THEN Returned(EmptyObject)
    ELSE IF JsonParse(text).ok THEN Returned(JsonParse(text).value)
    ELSE Thrown(OtherError("SyntaxError", "SyntaxError: Unexpected token"))

\* a decoding that returns the text of a body that is not JSON
DecodeBody_LenientParse(text, raw) ==
    IF text = "" THEN Returned(EmptyObject)
    ELSE IF raw THEN Returned(TextValue(text))
    ELSE IF JsonParse(text).ok THEN Returned(JsonParse(text).value)
    ELSE Returned(TextValue(text))

\* client.ts 89-92: what the try block does with the text of a success body
DecodeBody(text, raw) ==
    IF text = "" THEN Returned(EmptyObject)
    ELSE IF raw THEN Returned(TextValue(text))
    ELSE IF JsonParse(text).ok THEN Returned(JsonParse(text).value)
    ELSE Thrown(OtherError("SyntaxError", "SyntaxError: Unexpected token"))

\* a clearTimeout that clears nothing
ClearTimeout_Noop(timer) == timer

\* clearTimeout(timeoutId): a timer that has fired or was cleared is left alone
ClearTimeout(timer) == IF timer = "pending" THEN "cleared" ELSE timer

\* a catch block that lets every error but the abort through unclassified
RequestCatch_Rethrow(error, timeout, base) ==
    IF error.class = "Error" /\ error.name = "AbortError"
    THEN PortainerClientError(<<"Request timeout after ", ToString(timeout), "ms">>,
                              <<"TIMEOUT">>, Undefined)
    ELSE error

\* a catch block without the AbortError branch
RequestCatch_NoAbort(error, timeout, base) ==
    IF error.class = "PortainerClientError" THEN error
    ELSE PortainerClientError(<<"Cannot connect to Portainer at ">> \o base
                                  \o <<": ">> \o error.message,
                              <<"CONNECTION_ERROR">>, Undefined)

\* client.ts 93-106: the catch block of request
RequestCatch(error, timeout, base) ==
    IF error.class = "PortainerClientError" THEN error
    ELSE IF error.class = "Error" /\ error.name = "AbortError"
    THEN PortainerClientError(<<"Request timeout after ", ToString(timeout), "ms">>,
                              <<"TIMEOUT">>, Undefined)
    ELSE PortainerClientError(<<"Cannot connect to Portainer at ">> \o base
                                  \o <<": ">> \o error.message,
                              <<"CONNECTION_ERROR">>, Undefined)

\* client.ts 176-186: the catch block of getContainerLogs
LogsCatch(error) ==
    IF error.class = "PortainerClientError" THEN error
    ELSE IF error.class = "Error" /\ error.name = "AbortError"
    THEN PortainerClientError(<<"Request timeout after 60000ms">>, <<"TIMEOUT">>, Undefined)
    ELSE PortainerClientError(<<"Cannot connect to Portainer: ">> \o error.message,
                              <<"CONNECTION_ERROR">>, Undefined)

\* client.ts 165-171: the error getContainerLogs throws on a non-success status
LogsHttpError(status) ==
    PortainerClientError(<<"Failed to get logs: ", ToString(status)>>,
                         HttpCode(status), Some(status))

\* client.ts 109-116
WriteDisabledError ==
    PortainerClientError(
        <<"Write operations disabled. Set PORTAINER_WRITE_ENABLED=true to enable.">>,
        <<"WRITE_DISABLED">>, Undefined)

\* checkWriteEnabled(): TRUE when it throws
checkWriteEnabled(enabled) == ~enabled

(***************************************************************************)
(* Byte buffers and UTF-8.                                                 *)
(***************************************************************************)
ReplacementChar == 65533

IsContinuation(b) == b >= 128 /\ b <= 191
IsLead2(b) == b >= 194 /\ b <= 223

\* Buffer.toString("utf8") for buffers of ASCII bytes, two-byte sequences and
\* stray bytes: the result is the sequence of code points; every byte that
\* starts no well-formed sequence decodes to U+FFFD.
RECURSIVE Utf8Decode(_)
Utf8Decode(bytes) ==
    IF bytes = <<>> THEN <<>>
    ELSE LET b == Head(bytes) IN
         IF b < 128 THEN <<b>> \o Utf8Decode(Tail(bytes))
         ELSE IF IsLead2(b) /\ Len(bytes) >= 2 /\ IsContinuation(bytes[2])
         THEN <<(b - 192) * 64 + (bytes[2] - 128)>> \o Utf8Decode(Tail(Tail(bytes)))
         ELSE <<ReplacementChar>> \o Utf8Decode(Tail(bytes))

\* the length field read little-endian
ReadUInt32BE_LittleEndian(buffer, offset) ==
    buffer[offset + 4] * 16777216 + buffer[offset + 3] * 65536
        + buffer[offset + 2] * 256 + buffer[offset + 1]

\* buffer.readUInt32BE(offset), offset counted from 0
ReadUInt32BE(buffer, offset) ==
    buffer[offset + 1] * 16777216 + buffer[offset + 2] * 65536
        + buffer[offset + 3] * 256 + buffer[offset + 4]

\* buffer.subarray(start, end), offsets counted from 0, end exclusive
Subarray(buffer, start, end) == SubSeq(buffer, start + 1, end)

(***************************************************************************)
(* PortainerClient.stripDockerLogHeaders                                   *)
(***************************************************************************)
\* the frame loop dropping an incomplete last frame instead of taking its bytes
RECURSIVE StripLoop_DropPartial(_, _, _)
StripLoop_DropPartial(buffer, offset, chunks) ==
    IF offset + HeaderSize <= Len(buffer)
    THEN LET size == ReadUInt32BE(buffer, offset + 4)
             next == offset + HeaderSize
         IN  IF size = 0 THEN StripLoop_DropPartial(buffer, next, chunks)
             ELSE IF next + size > Len(buffer)
             THEN Flatten(chunks)
             ELSE StripLoop_DropPartial(buffer, next + size,
                            Append(chunks, Utf8Decode(Subarray(buffer, next, next + size))))
    ELSE Flatten(chunks)

\* the frame loop ending at the first frame of size zero
RECURSIVE StripLoop_ZeroStops(_, _, _)
StripLoop_ZeroStops(buffer, offset, chunks) ==
    IF offset + HeaderSize <= Len(buffer)
    THEN LET size == ReadUInt32BE(buffer, offset + 4)
             next == offset + HeaderSize
         IN  IF size = 0 THEN Flatten(chunks)
             ELSE IF next + size > Len(buffer)
             THEN Flatten(Append(chunks, Utf8Decode(Subarray(buffer, next, Len(buffer)))))
             ELSE StripLoop_ZeroStops(buffer, next + size,
                            Append(chunks, Utf8Decode(Subarray(buffer, next, next + size))))
    ELSE Flatten(chunks)

\* the frame loop taking the bytes left after the last frame as text
RECURSIVE StripLoop_KeepTrailing(_, _, _)
StripLoop_KeepTrailing(buffer, offset, chunks) ==
    IF offset + HeaderSize <= Len(buffer)
    THEN LET size == ReadUInt32BE(buffer, offset + 4)
             next == offset + HeaderSize
         IN  IF size = 0 THEN StripLoop_KeepTrailing(buffer, next, chunks)
             ELSE IF next + size > Len(buffer)
             THEN Flatten(Append(chunks, Utf8Decode(Subarray(buffer, next, Len(buffer)))))
             ELSE StripLoop_KeepTrailing(buffer, next + size,
                            Append(chunks, Utf8Decode(Subarray(buffer, next, next + size))))
    ELSE Flatten(Append(chunks, Utf8Decode(Subarray(buffer, offset, Len(buffer)))))

\* client.ts 205-219: the frame loop, entered at the loop head with `offset`
\* and the chunks pushed so far; the result is chunks.join("")
RECURSIVE StripLoop(_, _, _)
StripLoop(buffer, offset, chunks) ==
    IF offset + HeaderSize <= Len(buffer)
    THEN LET size == ReadUInt32BE(buffer, offset + 4)
             next == offset + HeaderSize
         IN  IF size = 0 THEN StripLoop(buffer, next, chunks)
             ELSE IF next + size > Len(buffer)
             THEN Flatten(Append(chunks, Utf8Decode(Subarray(buffer, next, Len(buffer)))))
             ELSE StripLoop(buffer, next + size,
                            Append(chunks, Utf8Decode(Subarray(buffer, next, next + size))))
    ELSE Flatten(chunks)

\* the TTY test off by one: first byte > 3
stripDockerLogHeaders_Tty3(buffer) ==
    IF Len(buffer) = 0 THEN <<>>
    ELSE IF buffer[1] > 3 THEN Utf8Decode(buffer)
    ELSE StripLoop(buffer, 0, <<>>)

\* client.ts 189-222
stripDockerLogHeaders(buffer) ==
    IF Len(buffer) = 0 THEN <<>>
    ELSE IF buffer[1] > 2 THEN Utf8Decode(buffer)
    ELSE StripLoop(buffer, 0, <<>>)

\* the frame loop testing only that the size field starts inside the buffer
RECURSIVE LoopReads_ShortGuard(_, _)
LoopReads_ShortGuard(buffer, offset) ==
    IF offset + 5 <= Len(buffer)
    THEN LET size == ReadUInt32BE(buffer \o <<0, 0, 0>>, offset + 4)
             next == offset + HeaderSize
         IN  (offset + 4)..(offset + 7) \cup
             ( IF size = 0 THEN LoopReads_ShortGuard(buffer, next)
               ELSE IF next + size > Len(buffer) THEN next..(Len(buffer) - 1)
               ELSE next..(next + size - 1) \cup LoopReads_ShortGuard(buffer, next + size) )
    ELSE {}

\* client.ts 202-219: the offsets (counted from 0) of the bytes the frame loop
\* reads: the four bytes of each size field, and the bytes subarray() takes
RECURSIVE LoopReads(_, _)
LoopReads(buffer, offset) ==
    IF offset + HeaderSize <= Len(buffer)
    THEN LET size == ReadUInt32BE(buffer, offset + 4)
             next == offset + HeaderSize
         IN  (offset + 4)..(offset + 7) \cup
             ( IF size = 0 THEN LoopReads(buffer, next)
               ELSE IF next + size > Len(buffer) THEN next..(Len(buffer) - 1)
               ELSE next..(next + size - 1) \cup LoopReads(buffer, next + size) )
    ELSE {}

\* the loop head reached 4 bytes after the header of a frame of size zero
RECURSIVE LoopHeads_ShortStep(_, _)
LoopHeads_ShortStep(buffer, offset) ==
    <<offset>> \o
    ( IF offset + HeaderSize <= Len(buffer)
      THEN LET size == ReadUInt32BE(buffer, offset + 4)
               next == offset + HeaderSize
           IN  IF size = 0 THEN LoopHeads_ShortStep(buffer, offset + 4)
               ELSE IF next + size > Len(buffer) THEN <<>>
               ELSE LoopHeads_ShortStep(buffer, next + size)
      ELSE <<>> )

\* client.ts 205-219: the value of `offset` each time the loop condition
\* `offset + 8 <= buffer.length` is evaluated, in order
RECURSIVE LoopHeads(_, _)
LoopHeads(buffer, offset) ==
    <<offset>> \o
    ( IF offset + HeaderSize <= Len(buffer)
      THEN LET size == ReadUInt32BE(buffer, offset + 4)
               next == offset + HeaderSize
           IN  IF size = 0 THEN LoopHeads(buffer, next)
               ELSE IF next + size > Len(buffer) THEN <<>>
               ELSE LoopHeads(buffer, next + size)
      ELSE <<>> )

\* client.ts 190-219: the offsets stripDockerLogHeaders reads
StripReads(buffer) ==
    IF Len(buffer) = 0 THEN {}
    ELSE IF buffer[1] > 2 THEN 0..(Len(buffer) - 1)
    ELSE {0} \cup LoopReads(buffer, 0)

\* client.ts 174-175: stripDockerLogHeaders(Buffer.from(buffer)); a read
\* outside the buffer makes readUInt32BE throw a RangeError
Demux(buffer) ==
    IF StripReads(buffer) \subseteq 0..(Len(buffer) - 1)
    THEN Returned(LogText(stripDockerLogHeaders(buffer)))
    ELSE Thrown(OtherError("RangeError", "RangeError: out of range"))

(***************************************************************************)
(* What the remote sends as a log body: frames of the Docker multiplexed   *)
(* stream, [stream_type (1)][padding (3)][size (4 big-endian)] payload.    *)
(* A frame's declared size may differ from the payload that follows it.    *)
(***************************************************************************)
StreamTags == {0, 1, 2, 3}
BigSize == 256

\* payloads: empty, ASCII "a", the two bytes of U+00E9 together and apart
Payloads == { <<>>, <<97>>, <<195>>, <<169>>, <<195, 169>> }

UInt32BE(n) == << n \div 16777216, (n \div 65536) % 256, (n \div 256) % 256, n % 256 >>

SeqsUpTo(S, n) == UNION { [1..k -> S] : k \in 0..n }

Frames ==
    { [tag |-> t, declared |-> d, payload |-> p] :
        t \in StreamTags, p \in Payloads, d \in {0, BigSize} } \cup
    { [tag |-> t, declared |-> Len(p) + k, payload |-> p] :
        t \in StreamTags, p \in Payloads, k \in {0, 1} }

EncodeFrame(f) == <<f.tag, 0, 0, 0>> \o UInt32BE(f.declared) \o f.payload

RECURSIVE EncodeFrames(_)
EncodeFrames(fs) ==
    IF fs = <<>> THEN <<>> ELSE EncodeFrame(Head(fs)) \o EncodeFrames(Tail(fs))

(***************************************************************************)
(* The public operations of PortainerClient.  Each is the request it       *)
(* builds: whether checkWriteEnabled() runs first, the method, the path,   *)
(* the body, and what the operation does with the value of request().      *)
(***************************************************************************)
EnvIds == {1}
ContainerIds == {"abc123"}
StackIds == {5}
ContainerActions == {"start", "stop", "restart", "kill", "remove"}
StackActions == {"start", "stop"}
TailArgs == { Undefined, Some(-5), Some(0), Some(1), Some(2), Some(100),
              Some(9999), Some(10000), Some(10001), Some(50000) }

NoBody == Undefined
JsonBody(fields) == Some(fields)

Op(name, args, write, method, path, body, result) ==
    [op |-> name, args |-> args, write |-> write, via |-> "request", method |-> method,
     path |-> path, body |-> body, timeout |-> DefaultTimeout, raw |-> FALSE,
     result |-> result]

\* client.ts 39-45: request(method, path, body?, timeout = 30000, raw = false)
\* called with every parameter given
request(method, path, body, timeout, raw) ==
    [Op("request", <<method, path, body, timeout, raw>>, FALSE, method, path, body, "return")
        EXCEPT !.timeout = timeout, !.raw = raw]

getEnvironments == Op("getEnvironments", <<>>, FALSE, "GET", <<"/endpoints">>, NoBody, "return")

getEnvironment(id) ==
    Op("getEnvironment", <<id>>, FALSE, "GET", <<"/endpoints/", ToString(id)>>, NoBody, "return")

getContainers(envId, all) ==
    Op("getContainers", <<envId, all>>, FALSE, "GET",
       <<"/endpoints/", ToString(envId), "/docker/containers/json">>
           \o (IF all THEN <<"?all=true">> ELSE <<>>),
       NoBody, "return")

inspectContainer(envId, containerId) ==
    Op("inspectContainer", <<envId, containerId>>, FALSE, "GET",
       <<"/endpoints/", ToString(envId), "/docker/containers/", containerId, "/json">>,
       NoBody, "return")

MathMax(a, b) == IF a >= b THEN a ELSE b
MathMin(a, b) == IF a <= b THEN a ELSE b

\* the clamp with min and max exchanged
ClampTail_Swapped(tail) == MathMax(MathMin(tail, MinTail), MaxTail)

\* client.ts 151
ClampTail(tail) == MathMin(MathMax(tail, MinTail), MaxTail)

\* client.ts 146-154: getContainerLogs builds its own call; `tail` is the
\* optional argument (default 100)
getContainerLogs(envId, containerId, tailArg) ==
    LET tail == IF tailArg = Undefined THEN DefaultTail ELSE tailArg[1]
    IN  [op |-> "getContainerLogs", args |-> <<envId, containerId, tailArg>>,
         write |-> FALSE, via |-> "logs", method |-> "GET",
         path |-> <<"/endpoints/", ToString(envId), "/docker/containers/", containerId,
                    "/logs?stdout=true&stderr=true&tail=", ToString(ClampTail(tail))>>,
         body |-> NoBody, timeout |-> LogsTimeout, raw |-> FALSE, result |-> "return"]

\* containerAction with the write check skipped on the remove branch
containerAction_UngatedRemove(envId, containerId, action) ==
    IF action = "remove"
    THEN Op("containerAction", <<envId, containerId, action>>, FALSE, "DELETE",
            <<"/endpoints/", ToString(envId), "/docker/containers/", containerId,
              "?force=true">>, NoBody, "void")
    ELSE Op("containerAction", <<envId, containerId, action>>, TRUE, "POST",
            <<"/endpoints/", ToString(envId), "/docker/containers/", containerId,
              "/", action>>, NoBody, "void")

\* containerAction without the remove branch: every action is a POST
containerAction_PostRemove(envId, containerId, action) ==
    Op("containerAction", <<envId, containerId, action>>, TRUE, "POST",
       <<"/endpoints/", ToString(envId), "/docker/containers/", containerId,
         "/", action>>, NoBody, "void")

containerAction(envId, containerId, action) ==
    IF action = "remove"
    THEN Op("containerAction", <<envId, containerId, action>>, TRUE, "DELETE",
            <<"/endpoints/", ToString(envId), "/docker/containers/", containerId,
              "?force=true">>, NoBody, "void")
    ELSE Op("containerAction", <<envId, containerId, action>>, TRUE, "POST",
            <<"/endpoints/", ToString(envId), "/docker/containers/", containerId,
              "/", action>>, NoBody, "void")

getContainerStats(envId, containerId) ==
    Op("getContainerStats", <<envId, containerId>>, FALSE, "GET",
       <<"/endpoints/", ToString(envId), "/docker/containers/", containerId,
         "/stats?stream=false">>, NoBody, "return")

getStacks == Op("getStacks", <<>>, FALSE, "GET", <<"/stacks">>, NoBody, "return")

getStack(stackId) ==
    Op("getStack", <<stackId>>, FALSE, "GET", <<"/stacks/", ToString(stackId)>>, NoBody, "return")

\* getStackFile behind the write gate
getStackFile_Gated(stackId) ==
    Op("getStackFile", <<stackId>>, TRUE, "GET", <<"/stacks/", ToString(stackId), "/file">>,
       NoBody, "return")

getStackFile(stackId) ==
    Op("getStackFile", <<stackId>>, FALSE, "GET", <<"/stacks/", ToString(stackId), "/file">>,
       NoBody, "return")

stackAction(stackId, action) ==
    Op("stackAction", <<stackId, action>>, TRUE, "POST", <<"/stacks/", ToString(stackId), "/", action>>,
       NoBody, "void")

\* env: Undefined, or Some(sequence of name/value pairs)
createStack(envId, name, composeContent, env) ==
    Op("createStack", <<envId, name, composeContent, env>>, TRUE, "POST",
       <<"/stacks/create/standalone/string?endpointId=", ToString(envId)>>,
       JsonBody({<<"name", name>>, <<"stackFileContent", composeContent>>}
                    \cup (IF env # Undefined /\ Len(env[1]) > 0
                          THEN {<<"env", "env">>} ELSE {})),
       "return")

\* options: the set of option names that are not undefined
updateStack(stackId, envId, options) ==
    Op("updateStack", <<stackId, envId, options>>, TRUE, "PUT",
       <<"/stacks/", ToString(stackId), "?endpointId=", ToString(envId)>>,
       JsonBody((IF "composeContent" \in options
                 THEN {<<"stackFileContent", "composeContent">>} ELSE {})
                \cup {<<o, o>> : o \in options \cap {"env", "prune", "pullImage"}}),
       "return")

redeployStack(stackId, envId, pullImageArg) ==
    Op("redeployStack", <<stackId, envId, pullImageArg>>, TRUE, "PUT",
       <<"/stacks/", ToString(stackId), "/git/redeploy?endpointId=", ToString(envId)>>,
       JsonBody({<<"pullImage",
                   IF pullImageArg = Undefined THEN "false" ELSE ToString(pullImageArg[1])>>}),
       "void")

deleteStack(stackId, envId) ==
    Op("deleteStack", <<stackId, envId>>, TRUE, "DELETE",
       <<"/stacks/", ToString(stackId), "?endpointId=", ToString(envId)>>, NoBody, "void")

getImages(envId) ==
    Op("getImages", <<envId>>, FALSE, "GET",
       <<"/endpoints/", ToString(envId), "/docker/images/json">>, NoBody, "return")

\* encodeURIComponent on the names used here
EncodeURIComponent(str) ==
    CASE str = "library/nginx" -> "library%2Fnginx"
      [] str = "sha256:abc" -> "sha256%3Aabc"
      [] OTHER -> str

\* image.split(":") is given as the sequence of its parts
pullImage(envId, imageParts) ==
    LET fromImage == imageParts[1]
        tag == IF Len(imageParts) >= 2 THEN imageParts[2] ELSE "latest"
    IN  Op("pullImage", <<envId, imageParts>>, TRUE, "POST",
           <<"/endpoints/", ToString(envId), "/docker/images/create?fromImage=",
             EncodeURIComponent(fromImage), "&tag=", EncodeURIComponent(tag)>>,
           NoBody, "void")

removeImage(envId, imageId) ==
    Op("removeImage", <<envId, imageId>>, TRUE, "DELETE",
       <<"/endpoints/", ToString(envId), "/docker/images/", EncodeURIComponent(imageId),
         "?force=true">>, NoBody, "void")

getVolumes(envId) ==
    Op("getVolumes", <<envId>>, FALSE, "GET",
       <<"/endpoints/", ToString(envId), "/docker/volumes">>, NoBody, "return")

createVolume(envId, name) ==
    Op("createVolume", <<envId, name>>, TRUE, "POST",
       <<"/endpoints/", ToString(envId), "/docker/volumes/create">>,
       JsonBody({<<"Name", name>>}), "return")

removeVolume(envId, name) ==
    Op("removeVolume", <<envId, name>>, TRUE, "DELETE",
       <<"/endpoints/", ToString(envId), "/docker/volumes/", EncodeURIComponent(name)>>,
       NoBody, "void")

getNetworks(envId) ==
    Op("getNetworks", <<envId>>, FALSE, "GET",
       <<"/endpoints/", ToString(envId), "/docker/networks">>, NoBody, "return")

\* subnet: Undefined or Some(string); an empty string is falsy
createNetwork(envId, name, subnet) ==
    Op("createNetwork", <<envId, name, subnet>>, TRUE, "POST",
       <<"/endpoints/", ToString(envId), "/docker/networks/create">>,
       JsonBody({<<"Name", name>>}
                    \cup (IF Truthy(subnet) THEN {<<"IPAM", subnet[1]>>} ELSE {})),
       "return")

removeNetwork(envId, networkId) ==
    Op("removeNetwork", <<envId, networkId>>, TRUE, "DELETE",
       <<"/endpoints/", ToString(envId), "/docker/networks/", networkId>>, NoBody, "void")

getDashboard(envId) ==
    Op("getDashboard", <<envId>>, FALSE, "GET", <<"/docker/", ToString(envId), "/dashboard">>,
       NoBody, "return")

getSystemInfo == Op("getSystemInfo", <<>>, FALSE, "GET", <<"/system/info">>, NoBody, "return")

getSystemVersion ==
    Op("getSystemVersion", <<>>, FALSE, "GET", <<"/system/version">>, NoBody, "return")

getRegistries == Op("getRegistries", <<>>, FALSE, "GET", <<"/registries">>, NoBody, "return")

\* client.ts 454: `await this.getStacks()`, the result then searched by name
getStackByName(name) ==
    [getStacks EXCEPT !.op = "getStackByName", !.args = <<name>>, !.result = "find"]

\* a find that keeps the last match
Find_Last(items, name) ==
    LET hits == { i \in 1..Len(items) : items[i].Name = name }
    IN  IF hits = {} THEN Undefined
        ELSE Some(items[CHOOSE i \in hits : \A j \in hits : j <= i])

\* client.ts 455: stacks.find((s) => s.Name === name)
Find(items, name) ==
    LET hits == { i \in 1..Len(items) : items[i].Name = name }
    IN  IF hits = {} THEN Undefined
        ELSE Some(items[CHOOSE i \in hits : \A j \in hits : i <= j])

\* client.ts 455-459: what getStackByName does with the value of getStacks()
FindStack(value, name) ==
    IF value.type # "array"
    THEN Thrown(OtherError("TypeError", "TypeError: stacks.find is not a function"))
    ELSE IF Find(value.items, name) = Undefined
    THEN Thrown(PortainerClientError(<<"Stack not found: ", name>>, <<"NOT_FOUND">>, Some(404)))
    ELSE Returned(StackValue(Find(value.items, name)[1]))

LookupNames == {"web", "we"}

ReadInvocations ==
    { getEnvironments, getStacks, getSystemInfo, getSystemVersion, getRegistries }
    \cup { getStackByName(n) : n \in LookupNames }
    \cup { getEnvironment(e) : e \in EnvIds }
    \cup { getContainers(e, all) : e \in EnvIds, all \in BOOLEAN }
    \cup { inspectContainer(e, c) : e \in EnvIds, c \in ContainerIds }
    \cup { getContainerLogs(e, c, t) : e \in EnvIds, c \in ContainerIds, t \in TailArgs }
    \cup { getContainerStats(e, c) : e \in EnvIds, c \in ContainerIds }
    \cup { getStack(s) : s \in StackIds }
    \cup { getStackFile(s) : s \in StackIds }
    \cup { getImages(e) : e \in EnvIds }
    \cup { getVolumes(e) : e \in EnvIds }
    \cup { getNetworks(e) : e \in EnvIds }
    \cup { getDashboard(e) : e \in EnvIds }

WriteInvocations ==
    { containerAction(e, c, a) : e \in EnvIds, c \in ContainerIds, a \in ContainerActions }
    \cup { stackAction(s, a) : s \in StackIds, a \in StackActions }
    \cup { createStack(e, "web", "yaml", env) :
             e \in EnvIds, env \in {Undefined, Some(<<>>), Some(<<"K=V">>)} }
    \cup { updateStack(s, e, o) : s \in StackIds, e \in EnvIds,
             o \in { {}, {"composeContent"}, {"composeContent", "env", "prune", "pullImage"} } }
    \cup { redeployStack(s, e, p) : s \in StackIds, e \in EnvIds,
             p \in {Undefined, Some(TRUE)} }
    \cup { deleteStack(s, e) : s \in StackIds, e \in EnvIds }
    \cup { pullImage(e, i) : e \in EnvIds, i \in { <<"library/nginx">>, <<"nginx", "1.25">> } }
    \cup { removeImage(e, "sha256:abc") : e \in EnvIds }
    \cup { createVolume(e, "data") : e \in EnvIds }
    \cup { removeVolume(e, "data") : e \in EnvIds }
    \cup { createNetwork(e, "mynet", n) : e \in EnvIds,
             n \in {Undefined, Some(""), Some("172.20.0.0/16")} }
    \cup { removeNetwork(e, "net1") : e \in EnvIds }

Invocations == ReadInvocations \cup WriteInvocations

MutatingOps ==
    { "containerAction", "stackAction", "createStack", "updateStack", "redeployStack",
      "deleteStack", "pullImage", "removeImage", "createVolume", "removeVolume",
      "createNetwork", "removeNetwork" }

(***************************************************************************)
(* The state machine: one slot per caller.  An invocation runs from the    *)
(* call to its first await (the fetch), and from each await to the next.   *)
(***************************************************************************)
Statuses == {200, 401, 403, 404, 500}

NoInvocation == Op("none", <<>>, FALSE, "", <<>>, NoBody, "return")

IdleSlot ==
    [pc |-> "idle", inv |-> NoInvocation, timer |-> "none", aborted |-> FALSE,
     sent |-> <<>>, status |-> 0, failed |-> "", text |-> "", frames |-> <<>>,
     buffer |-> <<>>, inner |-> NoOutcome, outcome |-> NoOutcome]

\* the log fetch sent without the credential
FetchCall_LogsNoKey(inv, base, key) ==
    [url |-> base \o <<"/api">> \o inv.path,
     method |-> inv.method,
     headers |-> IF inv.via = "logs"
                 THEN {}
                 ELSE {<<"X-API-Key", key>>, <<"Content-Type", "application/json">>},
     body |-> inv.body]

\* client.ts 46-59 and 152-161: the call handed to fetch
FetchCall(inv, base, key) ==
    [url |-> base \o <<"/api">> \o inv.path,
     method |-> inv.method,
     headers |-> IF inv.via = "logs"
                 THEN {<<"X-API-Key", key>>}
                 ELSE {<<"X-API-Key", key>>, <<"Content-Type", "application/json">>},
     body |-> inv.body]

\* the catch block of the function the invocation runs in
Catch(inv, error, base) ==
    IF inv.via = "logs" THEN LogsCatch(error) ELSE RequestCatch(error, inv.timeout, base)

\* what leaves the try/catch for what the try block did
TryCatch(inv, outcome, base) ==
    IF outcome.kind = "throw" THEN Thrown(Catch(inv, outcome.error, base)) ELSE outcome

\* what the public operation makes of the outcome of request():
\* `return this.request(...)` or `await this.request<void>(...)`
Settle(inv, outcome) ==
    IF outcome.kind = "value" /\ inv.result = "void" THEN Returned(UndefinedValue)
    ELSE IF outcome.kind = "value" /\ inv.result = "find"
    THEN FindStack(outcome.value, inv.args[1])
    ELSE outcome

\* an invocation that answers a failure by issuing its call once more
Done_Retry(c, slot, outcome) ==
    IF outcome.kind = "throw" /\ Len(slot.sent) = 1
    THEN slots' = [slots EXCEPT ![c] =
                     [slot EXCEPT !.pc = "fetch", !.timer = "pending", !.status = 0,
                                  !.failed = "", !.aborted = FALSE,
                                  !.sent = Append(slot.sent, slot.sent[1])]]
    ELSE slots' = [slots EXCEPT ![c] = [slot EXCEPT !.pc = "done", !.inner = outcome,
                                                    !.outcome = Settle(slot.inv, outcome)]]

\* request() or getContainerLogs() ends with `outcome` (kept in inner), and
\* the public operation that awaited it ends too
Done(c, slot, outcome) ==
    slots' = [slots EXCEPT ![c] = [slot EXCEPT !.pc = "done", !.inner = outcome,
                                               !.outcome = Settle(slot.inv, outcome)]]

\* no tool call is being handled
NoArgs ==
    [name |-> Undefined, stack_id |-> Undefined, action |-> Undefined,
     environment_id |-> Undefined]

NoMove == [do |-> "none", inv |-> NoInvocation, response |-> Undefined, error |-> NoError]

IdleTool ==
    [pc |-> "idle", name |-> "", args |-> NoArgs, calls |-> <<>>, results |-> <<>>,
     handler |-> NoMove, result |-> NoMove]

Init ==
    /\ ctorArgs \in [baseUrl : RawBaseUrls, apiKey : ApiKeys, writeEnabled : WriteArgs]
    /\ baseUrl = StripTrailingSlash(ctorArgs.baseUrl)
    /\ apiKey = ctorArgs.apiKey
    /\ writeEnabled = WriteEnabledArg(ctorArgs.writeEnabled)
    /\ slots = [c \in Callers |-> IdleSlot]
    /\ writeNetCalls = 0
    /\ tool = IdleTool

\* a public operation starts: it runs up to its first await
Invoke(c, inv) ==
    /\ (inv.write /\ writeEnabled) => writeNetCalls < MaxCalls
    /\ IF inv.write /\ checkWriteEnabled(writeEnabled)
       THEN /\ slots' = [slots EXCEPT ![c] =
                           [IdleSlot EXCEPT !.pc = "done", !.inv = inv,
                                            !.outcome = Thrown(WriteDisabledError)]]
            /\ UNCHANGED writeNetCalls
       ELSE /\ slots' = [slots EXCEPT ![c] =
                           [IdleSlot EXCEPT !.pc = "fetch", !.inv = inv,
                                            !.timer = "pending",
                                            !.sent = <<FetchCall(inv, baseUrl, apiKey)>>]]
            /\ writeNetCalls' = IF inv.write THEN writeNetCalls + 1 ELSE writeNetCalls
    /\ UNCHANGED <<ctorArgs, baseUrl, apiKey, writeEnabled>>

\* a public operation is called by a caller that holds the client
Call(c, inv) ==
    /\ slots[c].pc = "idle"
    /\ Invoke(c, inv)
    /\ UNCHANGED tool

\* the fetch resolves with a response of status `status`
Respond(c, status) ==
    LET slot == slots[c]
        cleared == [slot EXCEPT !.timer = ClearTimeout(slot.timer), !.status = status]
    IN  /\ slot.pc = "fetch"
        /\ IF ResponseOk(status)
           THEN slots' = [slots EXCEPT ![c] =
                            [cleared EXCEPT !.pc = IF slot.inv.via = "logs"
                                                   THEN "bytes" ELSE "body"]]
           ELSE IF slot.inv.via = "logs"
           THEN Done(c, cleared, TryCatch(slot.inv, Thrown(LogsHttpError(status)), baseUrl))
           ELSE slots' = [slots EXCEPT ![c] = [cleared EXCEPT !.pc = "errorBody"]]
        /\ UNCHANGED <<ctorArgs, baseUrl, apiKey, writeEnabled, writeNetCalls, tool>>

\* the fetch rejects with a network error
FetchRejects(c) ==
    LET slot == slots[c]
        error == OtherError("TypeError", "TypeError: fetch failed")
    IN  /\ slot.pc = "fetch"
        /\ Done(c, [slot EXCEPT !.timer = ClearTimeout(slot.timer), !.failed = "fetch"],
                TryCatch(slot.inv, Thrown(error), baseUrl))
        /\ UNCHANGED <<ctorArgs, baseUrl, apiKey, writeEnabled, writeNetCalls, tool>>

\* one AbortController shared by the client: a timer that fires aborts every
\* pending fetch
TimerFires_Shared(c) ==
    LET error == OtherError("AbortError", "AbortError: This operation was aborted")
        hit(d) == slots[d].pc = "fetch"
        end(d) == [slots[d] EXCEPT
                      !.pc = "done", !.timer = ClearTimeout("fired"), !.aborted = TRUE,
                      !.failed = "abort",
                      !.inner = TryCatch(slots[d].inv, Thrown(error), baseUrl),
                      !.outcome = Settle(slots[d].inv,
                                         TryCatch(slots[d].inv, Thrown(error), baseUrl))]
    IN  /\ slots[c].pc = "fetch"
        /\ slots[c].timer = "pending"
        /\ slots' = [d \in Callers |-> IF hit(d) THEN end(d) ELSE slots[d]]
        /\ UNCHANGED <<ctorArgs, baseUrl, apiKey, writeEnabled, writeNetCalls, tool>>

\* the timer fires while the fetch is pending: controller.abort() makes the
\* fetch reject with an AbortError
TimerFires(c) ==
    LET slot == slots[c]
        error == OtherError("AbortError", "AbortError: This operation was aborted")
    IN  /\ slot.pc = "fetch"
        /\ slot.timer = "pending"
        /\ Done(c, [slot EXCEPT !.timer = ClearTimeout("fired"), !.aborted = TRUE,
                                 !.failed = "abort"],
                TryCatch(slot.inv, Thrown(error), baseUrl))
        /\ UNCHANGED <<ctorArgs, baseUrl, apiKey, writeEnabled, writeNetCalls, tool>>

\* response.text() resolves
BodyText(c, text) ==
    LET slot == slots[c]
        read == [slot EXCEPT !.text = text]
    IN  /\ slot.pc \in {"errorBody", "body"}
        /\ IF slot.pc = "errorBody"
           THEN Done(c, read, TryCatch(slot.inv,
                        Thrown(HttpError(slot.status, slot.inv.path, text)), baseUrl))
           ELSE Done(c, read, TryCatch(slot.inv, DecodeBody(text, slot.inv.raw), baseUrl))
        /\ UNCHANGED <<ctorArgs, baseUrl, apiKey, writeEnabled, writeNetCalls, tool>>

\* response.arrayBuffer() resolves with `buffer`
BodyBuffer(c, frames, buffer) ==
    LET slot == slots[c]
    IN  /\ slot.pc = "bytes"
        /\ Done(c, [slot EXCEPT !.frames = frames, !.buffer = buffer],
                TryCatch(slot.inv, Demux(buffer), baseUrl))
        /\ UNCHANGED <<ctorArgs, baseUrl, apiKey, writeEnabled, writeNetCalls, tool>>

\* response.arrayBuffer() resolves with the bytes of `frames`
BodyBytes(c, frames) == BodyBuffer(c, frames, EncodeFrames(frames))

\* reading the body fails (the connection breaks after the status line)
BodyFails(c) ==
    LET slot == slots[c]
        error == OtherError("TypeError", "TypeError: terminated")
    IN  /\ slot.pc \in {"errorBody", "body", "bytes"}
        /\ Done(c, [slot EXCEPT !.timer = ClearTimeout(slot.timer), !.failed = "body"],
                TryCatch(slot.inv, Thrown(error), baseUrl))
        /\ UNCHANGED <<ctorArgs, baseUrl, apiKey, writeEnabled, writeNetCalls, tool>>

\* the caller's await resumes with the outcome: the invocation is over
Resume(c) ==
    /\ slots[c].pc = "done"
    /\ slots' = [slots EXCEPT ![c] = IdleSlot]
    /\ UNCHANGED <<ctorArgs, baseUrl, apiKey, writeEnabled, writeNetCalls, tool>>

Idle(c) == slots[c].pc = "idle"
AwaitsFetch(c) == slots[c].pc = "fetch"
AwaitsText(c) == slots[c].pc \in {"errorBody", "body"}
AwaitsBytes(c) == slots[c].pc = "bytes"

LogBodies == SeqsUpTo({f \in Frames : Len(f.payload) <= 1 /\ f.payload # <<169>>}, 1)

Next ==
    \/ Idle("a") /\ \E inv \in Invocations : Call("a", inv)
    \/ AwaitsFetch("a") /\ \E status \in Statuses : Respond("a", status)
    \/ FetchRejects("a")
    \/ TimerFires("a")
    \/ AwaitsText("a") /\ \E text \in Texts : BodyText("a", text)
    \/ AwaitsBytes("a") /\ \E frames \in LogBodies : BodyBytes("a", frames)
    \/ BodyFails("a")
    \/ Resume("a")

Spec == Init /\ [][Next]_vars

(***************************************************************************)
(* The log fetch alone, on one client, with every log body of up to        *)
(* MaxFrames frames.                                                       *)
(***************************************************************************)
InitLogs ==
    /\ Init
    /\ ctorArgs = [baseUrl |-> <<"h", "/">>, apiKey |-> "key", writeEnabled |-> Undefined]

NextLogs ==
    \/ \E e \in EnvIds, c \in ContainerIds : Call("a", getContainerLogs(e, c, Undefined))
    \/ AwaitsFetch("a") /\ \E status \in Statuses : Respond("a", status)
    \/ FetchRejects("a")
    \/ TimerFires("a")
    \/ AwaitsBytes("a") /\ \E n \in 0..MaxFrames :
                              \E frames \in [1..n -> Frames] : BodyBytes("a", frames)
    \/ BodyFails("a")
    \/ Resume("a")

SpecLogs == InitLogs /\ [][NextLogs]_vars

(***************************************************************************)
(* The lookup of a stack by name, over every list of up to MaxStacks       *)
(* stacks and every other body.                                            *)
(***************************************************************************)
NextStacks ==
    \/ Idle("a") /\ \E n \in LookupNames : Call("a", getStackByName(n))
    \/ AwaitsFetch("a") /\ \E status \in Statuses : Respond("a", status)
    \/ FetchRejects("a")
    \/ TimerFires("a")
    \/ AwaitsText("a") /\ \E text \in Texts \cup StackTexts : BodyText("a", text)
    \/ BodyFails("a")
    \/ Resume("a")

SpecStacks == Init /\ [][NextStacks]_vars

(***************************************************************************)
(* Two callers on one client, their invocations interleaved at every       *)
(* await: the two requests inspectStack starts together, and a log fetch.  *)
(***************************************************************************)
PairInvocations ==
    { getStack(s) : s \in StackIds } \cup { getStackFile(s) : s \in StackIds }
    \cup { getContainerLogs(e, c, Undefined) : e \in EnvIds, c \in ContainerIds }
PairStatuses == {200, 500}
PairTexts == {"", "{}", "{message:boom}"}
PairLogBodies == { <<>>, <<[tag |-> 1, declared |-> 1, payload |-> <<97>>]>> }

NextPair ==
    \E c \in Callers :
        \/ Idle(c) /\ \E inv \in PairInvocations : Call(c, inv)
        \/ AwaitsFetch(c) /\ \E status \in PairStatuses : Respond(c, status)
        \/ FetchRejects(c)
        \/ TimerFires(c)
        \/ AwaitsText(c) /\ \E text \in PairTexts : BodyText(c, text)
        \/ AwaitsBytes(c) /\ \E frames \in PairLogBodies : BodyBytes(c, frames)
        \/ BodyFails(c)
        \/ Resume(c)

SpecPair == Init /\ [][NextPair]_vars

(***************************************************************************)
(* request() itself, called with each value of its timeout and raw         *)
(* parameters.                                                             *)
(***************************************************************************)
RequestCalls ==
    { request("GET", <<"/stacks">>, NoBody, t, raw) : t \in {DefaultTimeout, 5000}, raw \in BOOLEAN }
    \cup { request("POST", <<"/stacks">>, JsonBody({<<"name", "web">>}), DefaultTimeout, raw) :
              raw \in BOOLEAN }

NextRequest ==
    \/ Idle("a") /\ \E inv \in RequestCalls : Call("a", inv)
    \/ AwaitsFetch("a") /\ \E status \in Statuses : Respond("a", status)
    \/ FetchRejects("a")
    \/ TimerFires("a")
    \/ AwaitsText("a") /\ \E text \in Texts : BodyText("a", text)
    \/ BodyFails("a")
    \/ Resume("a")

SpecRequest == Init /\ [][NextRequest]_vars

(***************************************************************************)
(* A request and a log fetch against a remote that may stall at any point: *)
(* no step of the remote is ever forced.  The only step the runtime        *)
(* guarantees is that a pending timer fires.                               *)
(***************************************************************************)
LiveInvocations ==
    { getStacks } \cup { getContainerLogs(e, c, Undefined) : e \in EnvIds, c \in ContainerIds }

NextLive ==
    \/ Idle("a") /\ \E inv \in LiveInvocations : Call("a", inv)
    \/ AwaitsFetch("a") /\ \E status \in Statuses : Respond("a", status)
    \/ FetchRejects("a")
    \/ TimerFires("a")
    \/ AwaitsText("a") /\ \E text \in Texts : BodyText("a", text)
    \/ AwaitsBytes("a") /\ \E frames \in LogBodies : BodyBytes("a", frames)
    \/ BodyFails("a")
    \/ Resume("a")

SpecLive == Init /\ [][NextLive]_vars /\ WF_vars(TimerFires("a"))

(***************************************************************************)
(* The log fetch with any bytes at all as the body: every buffer of up to  *)
(* MaxBufLen bytes over ByteValues, and every encoding of one frame.       *)
(***************************************************************************)
\* a size field has its first byte below 128, so that sizes stay below 2^31
ByteValues == {0, 1, 127}

NextBytes ==
    \/ \E e \in EnvIds, c \in ContainerIds : Call("a", getContainerLogs(e, c, Undefined))
    \/ AwaitsFetch("a") /\ \E status \in Statuses : Respond("a", status)
    \/ FetchRejects("a")
    \/ TimerFires("a")
    \/ AwaitsBytes("a") /\ \E n \in 0..MaxBufLen :
                              \E buffer \in [1..n -> ByteValues] :
                                  BodyBuffer("a", <<>>, buffer)
    \/ AwaitsBytes("a") /\ \E frame \in Frames : BodyBytes("a", <<frame>>)
    \/ AwaitsBytes("a") /\ \E frame \in Frames : \E n \in 1..MaxTrailing :
                              \E trailing \in [1..n -> ByteValues] :
                                  BodyBuffer("a", <<frame>>, EncodeFrame(frame) \o trailing)
    \/ BodyFails("a")
    \/ Resume("a")

SpecBytes == InitLogs /\ [][NextBytes]_vars

(***************************************************************************)
(* The tool layer: handleToolCall looks the tool name up in toolHandlers,  *)
(* runs the handler against the client and turns what the handler threw    *)
(* into an error response.  The stack handlers stand for the registry.     *)
(***************************************************************************)
RegisteredTools == {"list_stacks", "stack_action", "get_stack_by_name"}
\* names that are no key of toolHandlers: one that no object has, and
\* properties every object literal inherits from Object.prototype
InheritedNames == {"toString", "valueOf", "constructor", "__proto__"}
RequestedNames == RegisteredTools \cup InheritedNames \cup {"unknown_tool"}

\* toolHandlers[name]: the value the property read yields
toolHandlers(name) ==
    IF name \in RegisteredTools THEN "handler"
    ELSE IF name \in {"toString", "valueOf", "constructor"} THEN "Object.prototype function"
    ELSE IF name = "__proto__" THEN "Object.prototype"
    ELSE "undefined"

\* the arguments of a call, as the properties the stack schemas read
ToolArgs ==
    {NoArgs}
    \cup { [NoArgs EXCEPT !.name = Some(n)] : n \in LookupNames }
    \cup { [NoArgs EXCEPT !.stack_id = Some(s), !.action = Some(a), !.environment_id = e] :
             s \in StackIds, a \in {"start", "remove", "bogus"}, e \in {Undefined, Some(1)} }

\* a ToolResponse: content is a sequence of texts, isError is optional
ToolResponse(content, isError) == [type |-> "response", content |-> content, isError |-> isError]
\* a value that is no ToolResponse: it has neither content nor isError
PlainValue(type, text) == [type |-> type, content |-> << <<text>> >>, isError |-> Undefined]

\* JSON.stringify(data, null, 2)
JsonStringify(data) == <<"json", ToString(data)>>

formatResponse(data) == ToolResponse(<<JsonStringify(data)>>, Undefined)

formatStackResponse(metadata, composeContent) ==
    ToolResponse(
        IF Truthy(composeContent)
        THEN <<JsonStringify(metadata),
               <<"--- Docker Compose File --- yaml", composeContent[1], "end yaml">> >>
        ELSE <<JsonStringify(metadata)>>,
        Undefined)

formatError(error) ==
    LET message == IF error.class = "PortainerClientError" THEN error.message
                   ELSE IF error.class = "Error" THEN error.message
                   ELSE <<"Unknown error">>
    IN  ToolResponse(<< <<"Error: ">> \o message >>, Some(TRUE))

\* what a handler does next: it awaits a client call, returns or throws
Await(inv) == [do |-> "await", inv |-> inv, response |-> Undefined, error |-> NoError]
Return(response) ==
    [do |-> "return", inv |-> NoInvocation, response |-> Some(response), error |-> NoError]
Throw(error) == [do |-> "throw", inv |-> NoInvocation, response |-> Undefined, error |-> error]

ZodError == OtherError("ZodError", "invalid arguments")
\* reading a property of null or undefined, calling what is no function
TypeError(text) == OtherError("TypeError", text)

ListStacksSchema(args) == TRUE
StackActionSchema(args) ==
    /\ args.stack_id # Undefined
    /\ args.action # Undefined
    /\ args.action[1] \in {"start", "stop", "remove"}
StackByNameSchema(args) == args.name # Undefined

\* listStacks up to its await; the stacks of the model carry no EndpointId,
\* the filter keeps none of them
listStacks(args, step, value) ==
    IF step = 0
    THEN IF ListStacksSchema(args) THEN Await(getStacks) ELSE Throw(ZodError)
    ELSE IF value.type # "array"
    THEN Throw(TypeError(IF args.environment_id # Undefined
                         THEN "stacks.filter is not a function"
                         ELSE "stacks.map is not a function"))
    ELSE LET stacks == IF args.environment_id # Undefined THEN <<>> ELSE value.items
         IN  Return(formatResponse([items |-> stacks, count |-> Len(stacks)]))

stackActionTool(args, step, value) ==
    IF step = 0
    THEN IF ~StackActionSchema(args) THEN Throw(ZodError)
         ELSE IF args.action[1] = "remove"
         THEN IF args.environment_id = Undefined \/ args.environment_id[1] = 0
              THEN Throw(OtherError("Error", "environment_id is required for remove action"))
              ELSE Await(deleteStack(args.stack_id[1], args.environment_id[1]))
         ELSE Await(stackAction(args.stack_id[1], args.action[1]))
    ELSE Return(formatResponse([success |-> TRUE,
                                message |-> <<"Stack ", args.action[1], " completed">>]))

\* a handler that asks for the file of stack 1 whatever the lookup found
getStackByNameTool_FirstId(args, step, value) ==
    IF step = 0
    THEN IF StackByNameSchema(args) THEN Await(getStackByName(args.name[1]))
         ELSE Throw(ZodError)
    ELSE IF step = 1
    THEN Await(getStackFile(1))
    ELSE Return(formatStackResponse(tool.results[1].value.stack[1], value.StackFileContent))

\* value: what the last awaited client call resolved with
getStackByNameTool(args, step, value) ==
    IF step = 0
    THEN IF StackByNameSchema(args) THEN Await(getStackByName(args.name[1]))
         ELSE Throw(ZodError)
    ELSE IF step = 1
    THEN Await(getStackFile(value.stack[1].Id))
    ELSE IF value.type \in {"null", "undefined"}
    THEN Throw(TypeError("Cannot read properties of null"))
    ELSE Return(formatStackResponse(tool.results[1].value.stack[1], value.StackFileContent))

\* the registered handler run from its start (step 0) or from the await
\* that has resolved with `value`
Handler(name, args, step, value) ==
    CASE name = "list_stacks" -> listStacks(args, step, value)
      [] name = "stack_action" -> stackActionTool(args, step, value)
      [] name = "get_stack_by_name" -> getStackByNameTool(args, step, value)

\* handler(client, args) where handler is what an unregistered name found
\* on Object.prototype: the functions run with `this` undefined
Inherited(name) ==
    CASE name = "toString" -> Return(PlainValue("string", "[object Undefined]"))
      [] name = "constructor" -> Return(PlainValue("PortainerClient", "client"))
      [] name = "valueOf" -> Throw(TypeError("Cannot convert undefined or null to object"))
      [] name = "__proto__" -> Throw(TypeError("handler is not a function"))

\* new Error(`Unknown tool: ${name}`)
UnknownTool(name) == [OtherError("Error", "") EXCEPT !.message = <<"Unknown tool: ", name>>]

\* the catch block of handleToolCall
HandleCatch(move) == IF move.do = "throw" THEN Return(formatError(move.error)) ELSE move

\* handleToolCall settles: `handler` is how the handler ended, `result` is
\* what handleToolCall resolves with
Finished(name, args, calls, results, move, result) ==
    [pc |-> "done", name |-> name, args |-> args, calls |-> calls, results |-> results,
     handler |-> move, result |-> result]

\* handleToolCall(client, name, args) runs up to its first await
ToolCall(name, args) ==
    /\ tool.pc = "idle"
    /\ slots["a"].pc = "idle"
    /\ IF ~(toolHandlers(name) # "undefined")
       THEN /\ tool' = Finished(name, args, <<>>, <<>>, NoMove,
                                Return(formatError(UnknownTool(name))))
            /\ UNCHANGED <<ctorArgs, baseUrl, apiKey, writeEnabled, slots, writeNetCalls>>
       ELSE IF toolHandlers(name) # "handler"
       THEN /\ tool' = Finished(name, args, <<>>, <<>>, Inherited(name),
                                HandleCatch(Inherited(name)))
            /\ UNCHANGED <<ctorArgs, baseUrl, apiKey, writeEnabled, slots, writeNetCalls>>
       ELSE LET move == Handler(name, args, 0, UndefinedValue)
            IN  IF move.do = "await"
                THEN /\ Invoke("a", move.inv)
                     /\ tool' = [IdleTool EXCEPT !.pc = "await", !.name = name, !.args = args,
                                                 !.calls = <<move.inv>>]
                ELSE /\ tool' = Finished(name, args, <<>>, <<>>, move, HandleCatch(move))
                     /\ UNCHANGED <<ctorArgs, baseUrl, apiKey, writeEnabled, slots,
                                    writeNetCalls>>

\* the client call the handler awaits has settled: the handler goes on to
\* its next await or ends, and a rejection ends it in the catch block
ToolResume ==
    LET outcome == slots["a"].outcome
        results == Append(tool.results, outcome)
        move == IF outcome.kind = "throw" THEN Throw(outcome.error)
                ELSE Handler(tool.name, tool.args, Len(results), outcome.value)
    IN  /\ tool.pc = "await"
        /\ slots["a"].pc = "done"
        /\ IF move.do = "await"
           THEN /\ Invoke("a", move.inv)
                /\ tool' = [tool EXCEPT !.calls = Append(tool.calls, move.inv),
                                        !.results = results]
           ELSE /\ slots' = [slots EXCEPT !["a"] = IdleSlot]
                /\ tool' = Finished(tool.name, tool.args, tool.calls, results, move,
                                    HandleCatch(move))
                /\ UNCHANGED <<ctorArgs, baseUrl, apiKey, writeEnabled, writeNetCalls>>

\* the server sends what handleToolCall resolved with
ToolReturn ==
    /\ tool.pc = "done"
    /\ tool' = IdleTool
    /\ UNCHANGED <<ctorArgs, baseUrl, apiKey, writeEnabled, slots, writeNetCalls>>

ToolTexts == StackTexts \cup {"", "null", "not json", StackFileText}

NextTools ==
    \/ \E name \in RequestedNames : \E args \in ToolArgs : ToolCall(name, args)
    \/ AwaitsFetch("a") /\ \E status \in Statuses : Respond("a", status)
    \/ FetchRejects("a")
    \/ TimerFires("a")
    \/ AwaitsText("a") /\ \E text \in ToolTexts : BodyText("a", text)
    \/ BodyFails("a")
    \/ ToolResume
    \/ ToolReturn

SpecTools == Init /\ [][NextTools]_vars

(***************************************************************************)
(* Properties.                                                             *)
(***************************************************************************)
IsClientError(outcome, code) ==
    /\ outcome.kind = "throw"
    /\ outcome.error.class = "PortainerClientError"
    /\ outcome.error.code = code

\* the timers that are set and have neither fired nor been cleared
PendingTimers == { c \in Callers : slots[c].timer = "pending" }

\* C1: on a client constructed with write disabled (explicitly or by
\* default) every mutating operation has rejected with WRITE_DISABLED
\* without a fetch, and the mutating operations have issued no network
\* call at all.
C1_WriteGate ==
    ~WriteEnabledArg(ctorArgs.writeEnabled) =>
        /\ writeNetCalls = 0
        /\ \A c \in Callers :
              slots[c].inv.op \in MutatingOps =>
                  /\ slots[c].pc = "done"
                  /\ IsClientError(slots[c].outcome, <<"WRITE_DISABLED">>)
                  /\ slots[c].sent = <<>>
                  /\ slots[c].timer = "none"

C1_Witness ==
    /\ ctorArgs.writeEnabled = Undefined
    /\ slots["a"].pc = "done"
    /\ slots["a"].inv.op = "containerAction"
    /\ slots["a"].inv.method = "DELETE"
    /\ IsClientError(slots["a"].outcome, <<"WRITE_DISABLED">>)

\* C2: an invocation of request() that has ended either returned a value
\* or threw a PortainerClientError; it returned a value only after a
\* success status whose body was read.
C2_RequestOutcome ==
    \A c \in Callers :
        (slots[c].pc = "done" /\ slots[c].inv.via = "request" /\ slots[c].sent # <<>>) =>
            /\ \/ slots[c].inner.kind = "value"
               \/ /\ slots[c].inner.kind = "throw"
                  /\ slots[c].inner.error.class = "PortainerClientError"
            /\ slots[c].inner.kind = "value" =>
                  /\ ResponseOk(slots[c].status)
                  /\ slots[c].failed = ""

\* a success body that is not JSON: the parse exception is classified
C2_Witness ==
    /\ slots["a"].pc = "done"
    /\ slots["a"].inv.via = "request"
    /\ slots["a"].status = 200
    /\ slots["a"].text = "not json"
    /\ slots["a"].inner.kind = "throw"
    /\ slots["a"].inner.error.class = "PortainerClientError"

\* the fixed message of the three statuses
FixedPhrase(status, path) ==
    CASE status = 401 -> <<"Invalid API key or expired token">>
      [] status = 403 -> <<"Insufficient permissions for this operation">>
      [] status = 404 -> <<"Resource not found: ">> \o path

\* C3 (as claimed): whenever the remote answered an operation with 401, 403
\* or 404, the operation failed with HTTP_<status>, that statusCode, and the
\* fixed phrase of the status as its message.
C3_FixedPhrases ==
    \A c \in Callers :
        (slots[c].pc = "done" /\ slots[c].status \in {401, 403, 404}) =>
            /\ IsClientError(slots[c].outcome, HttpCode(slots[c].status))
            /\ slots[c].outcome.error.statusCode = Some(slots[c].status)
            /\ slots[c].outcome.error.message
                   = FixedPhrase(slots[c].status, slots[c].inv.path)

\* C4: a timer that fired found the fetch pending; the call was aborted and
\* the operation failed with code TIMEOUT and no statusCode.  The timer runs
\* 60000 ms for getContainerLogs and 30000 ms for every other operation.
C4_Timeout ==
    \A c \in Callers :
        /\ slots[c].timer = "fired" =>
              /\ slots[c].pc = "done"
              /\ slots[c].aborted
              /\ slots[c].status = 0
              /\ IsClientError(slots[c].outcome, <<"TIMEOUT">>)
              /\ slots[c].outcome.error.statusCode = Undefined
        /\ slots[c].sent # <<>> =>
              slots[c].inv.timeout = IF slots[c].inv.op = "getContainerLogs"
                                     THEN 60000 ELSE 30000

C4_Witness ==
    /\ slots["a"].timer = "fired"
    /\ slots["a"].inv.op = "getEnvironments"
    /\ IsClientError(slots["a"].outcome, <<"TIMEOUT">>)

\* C5: a timer is pending only while its fetch is pending; once the
\* invocation has ended, on whatever path, its timer is cleared or has fired,
\* so no timer is pending when no invocation is in flight.
C5_TimersCleared ==
    /\ \A c \in Callers : slots[c].timer = "pending" => slots[c].pc = "fetch"
    /\ \A c \in Callers : slots[c].pc = "done" /\ slots[c].sent # <<>> =>
                              slots[c].timer \in {"cleared", "fired"}
    /\ (\A c \in Callers : slots[c].pc \in {"idle", "done"}) => PendingTimers = {}

\* the body read failed after a success status: the exception path
C5_Witness ==
    /\ slots["a"].pc = "done"
    /\ slots["a"].status = 200
    /\ slots["a"].failed = "body"
    /\ slots["a"].timer = "cleared"

\* C6 (as claimed): a fetch that failed at the network level, not by abort,
\* makes the operation fail with CONNECTION_ERROR, no statusCode, and a
\* message that includes the client's address.
C6_ConnectionError ==
    \A c \in Callers :
        (slots[c].pc = "done" /\ slots[c].failed = "fetch") =>
            /\ IsClientError(slots[c].outcome, <<"CONNECTION_ERROR">>)
            /\ slots[c].outcome.error.statusCode = Undefined
            /\ HasSubSeq(slots[c].outcome.error.message, baseUrl)

\* clamp(tail, 1, 10000), an omitted tail counting as 100
ExpectedTail(tailArg) ==
    IF tailArg = Undefined THEN 100
    ELSE IF tailArg[1] < 1 THEN 1
    ELSE IF tailArg[1] > 10000 THEN 10000
    ELSE tailArg[1]

\* C7: the tail query parameter of the call getContainerLogs sends is
\* clamp(tail, 1, 10000), and 100 when tail is omitted.
C7_TailClamp ==
    \A c \in Callers :
        (slots[c].inv.op = "getContainerLogs" /\ slots[c].sent # <<>>) =>
            LET url == slots[c].sent[1].url
            IN  /\ url[Len(url) - 1] = "/logs?stdout=true&stderr=true&tail="
                /\ url[Len(url)] = ToString(ExpectedTail(slots[c].inv.args[3]))

C7_Witness ==
    /\ slots["a"].inv.op = "getContainerLogs"
    /\ slots["a"].inv.args[3] = Some(50000)
    /\ slots["a"].sent # <<>>
    /\ slots["a"].sent[1].url[Len(slots["a"].sent[1].url)] = "10000"

\* a log body has been read and demultiplexed for caller c
LogsReturned(c) ==
    /\ slots[c].pc = "done"
    /\ slots[c].inv.op = "getContainerLogs"
    /\ slots[c].inner.kind = "value"

\* the frame carries exactly the payload its header declares
Complete(f) == f.declared = Len(f.payload)

\* the decoded payloads of the frames, joined in order
PayloadText(fs) == Flatten([i \in 1..Len(fs) |-> Utf8Decode(fs[i].payload)])

\* C8: for a body that is a sequence of complete frames, the first with a
\* tag in {0,1,2}, the result is the decoded payloads of all frames joined
\* in wire order: no header byte, and nothing that depends on the tags.
C8_CompleteFrames ==
    \A c \in Callers :
        LET fs == slots[c].frames
        IN  ( /\ LogsReturned(c)
              /\ \A i \in 1..Len(fs) : Complete(fs[i])
              /\ fs # <<>> => fs[1].tag <= 2 )
            => slots[c].outcome = Returned(LogText(PayloadText(fs)))

\* two complete frames, stdout then stderr, both with a payload
C8_Witness ==
    /\ LogsReturned("a")
    /\ Len(slots["a"].frames) = 2
    /\ slots["a"].frames[1] = [tag |-> 1, declared |-> 1, payload |-> <<97>>]
    /\ slots["a"].frames[2] = [tag |-> 2, declared |-> 2, payload |-> <<195, 169>>]
    /\ slots["a"].outcome.value.chars = <<97, 233>>

\* C9: a non-empty body whose first byte is greater than 2 is returned as the
\* decoding of the whole buffer, header-like bytes included.
C9_TtyPassthrough ==
    \A c \in Callers :
        LET buffer == EncodeFrames(slots[c].frames)
        IN  (LogsReturned(c) /\ Len(buffer) > 0 /\ buffer[1] > 2)
            => slots[c].outcome = Returned(LogText(Utf8Decode(buffer)))

\* first byte 3, followed by bytes that have the shape of two frames
C9_Witness ==
    /\ LogsReturned("a")
    /\ Len(slots["a"].frames) = 2
    /\ slots["a"].frames[1] = [tag |-> 3, declared |-> 1, payload |-> <<97>>]
    /\ slots["a"].frames[2] = [tag |-> 1, declared |-> 2, payload |-> <<195, 169>>]
    /\ slots["a"].outcome.value.chars
           = <<3, 0, 0, 0, 0, 0, 0, 1, 97, 1, 0, 0, 0, 0, 0, 0, 2, 233>>

\* C10: when the frames before frame k are complete and frame k declares
\* more bytes than remain in the buffer, the result is the decoded payloads
\* of the frames before k followed by the decoding of every byte after
\* header k; nothing after it is parsed as a frame, and nothing is thrown.
C10_TruncatedFrame ==
    \A c \in Callers :
        LET fs == slots[c].frames
        IN  \A k \in 1..Len(fs) :
                LET after == fs[k].payload \o EncodeFrames(SubSeq(fs, k + 1, Len(fs)))
                IN  ( /\ slots[c].pc = "done"
                      /\ slots[c].inv.op = "getContainerLogs"
                      /\ ResponseOk(slots[c].status)
                      /\ slots[c].failed = ""
                      /\ fs[1].tag <= 2
                      /\ \A i \in 1..(k - 1) : Complete(fs[i])
                      /\ fs[k].declared > Len(after) )
                    => slots[c].outcome
                         = Returned(LogText(PayloadText(SubSeq(fs, 1, k - 1))
                                                \o Utf8Decode(after)))

\* one complete frame, then a frame that declares 256 bytes and carries 2
C10_Witness ==
    /\ LogsReturned("a")
    /\ Len(slots["a"].frames) = 2
    /\ slots["a"].frames[1] = [tag |-> 1, declared |-> 1, payload |-> <<97>>]
    /\ slots["a"].frames[2] = [tag |-> 2, declared |-> 256, payload |-> <<195, 169>>]
    /\ slots["a"].outcome.value.chars = <<97, 233>>

\* C11: stripDockerLogHeaders is total.  Whatever bytes the body holds, the
\* empty buffer included, it reads no byte outside the buffer, throws
\* nothing, and returns a string; for the empty buffer, the empty string.
C11_Total ==
    \A c \in Callers :
        ( /\ slots[c].pc = "done"
          /\ slots[c].inv.op = "getContainerLogs"
          /\ ResponseOk(slots[c].status)
          /\ slots[c].failed = "" )
        => /\ StripReads(slots[c].buffer) \subseteq 0..(Len(slots[c].buffer) - 1)
           /\ slots[c].outcome.kind = "value"
           /\ slots[c].outcome.value.type = "string"
           /\ slots[c].outcome = Returned(LogText(stripDockerLogHeaders(slots[c].buffer)))
           /\ slots[c].buffer = <<>> => slots[c].outcome.value.chars = <<>>

\* a header alone whose size field is far larger than the buffer, with one
\* byte after it
C11_Witness ==
    /\ LogsReturned("a")
    /\ slots["a"].buffer = <<1, 127, 127, 127, 127, 127, 127, 127, 1>>
    /\ slots["a"].outcome.value.chars = <<1>>

\* the stacks of a list whose Name is exactly `name`, by position
Matches(list, name) == { i \in 1..Len(list) : list[i].Name = name }

\* C12: when getStacks() gave a list of stacks, getStackByName(name) returns
\* the first stack of the list whose Name is exactly name, as it was listed;
\* when no stack has that Name it fails with NOT_FOUND, statusCode 404 and a
\* message that contains name.
C12_StackByName ==
    \A c \in Callers : \A list \in StackLists :
        ( /\ slots[c].pc = "done"
          /\ slots[c].inv.op = "getStackByName"
          /\ ResponseOk(slots[c].status)
          /\ slots[c].failed = ""
          /\ slots[c].text = StackListText(list) )
        => LET name == slots[c].inv.args[1]
               hits == Matches(list, name)
           IN  IF hits = {}
               THEN /\ IsClientError(slots[c].outcome, <<"NOT_FOUND">>)
                    /\ slots[c].outcome.error.statusCode = Some(404)
                    /\ HasSubSeq(slots[c].outcome.error.message, <<name>>)
               ELSE \E i \in hits :
                      /\ \A j \in hits : i <= j
                      /\ slots[c].outcome = Returned(StackValue(list[i]))
                      /\ slots[c].outcome.value.stack[1].Name = name

\* two stacks named web: the first is returned
C12_Witness ==
    /\ slots["a"].pc = "done"
    /\ slots["a"].inv.op = "getStackByName"
    /\ slots["a"].inv.args = <<"web">>
    /\ slots["a"].text = StackListText(<<[Id |-> 1, Name |-> "web"], [Id |-> 2, Name |-> "web"]>>)
    /\ slots["a"].outcome = Returned(StackValue([Id |-> 1, Name |-> "web"]))

\* C13: every call handed to fetch, the log fetch included, has the header
\* X-API-Key with the credential the client was constructed with.
C13_CredentialHeader ==
    /\ apiKey = ctorArgs.apiKey
    /\ \A c \in Callers : \A i \in 1..Len(slots[c].sent) :
          /\ <<"X-API-Key", ctorArgs.apiKey>> \in slots[c].sent[i].headers
          /\ \A h \in slots[c].sent[i].headers : h[1] = "X-API-Key" => h[2] = ctorArgs.apiKey

\* the log fetch of a client constructed with the second credential
C13_Witness ==
    /\ ctorArgs.apiKey = "key2"
    /\ slots["a"].inv.op = "getContainerLogs"
    /\ Len(slots["a"].sent) = 1
    /\ slots["a"].sent[1].headers = {<<"X-API-Key", "key2">>}

\* the invocation of c was stopped by the write gate
GateRejects(c) == slots[c].inv.write /\ ~writeEnabled

\* C14: an invocation issues one network call, none when the write gate
\* rejects it, and never a second one whatever the first call's fate; once
\* it has ended (failed or returned) it takes no further step but the
\* caller's resuming, so it fails at most once.
C14_NoRetry ==
    /\ [](\A c \in Callers :
            /\ Len(slots[c].sent) <= 1
            /\ slots[c].pc # "idle" =>
                   Len(slots[c].sent) = IF GateRejects(c) THEN 0 ELSE 1)
    /\ [][\A c \in Callers :
            slots[c].pc = "done" => (slots'[c] = slots[c] \/ slots'[c] = IdleSlot)]_vars

\* a call answered with status 500 has failed, and it was the only call
C14_Witness ==
    /\ slots["a"].pc = "done"
    /\ slots["a"].status = 500
    /\ IsClientError(slots["a"].outcome, HttpCode(500))
    /\ Len(slots["a"].sent) = 1

\* what an invocation yields when it runs alone, from what happened to its
\* own call: how the call failed, or the status and body it was answered with
AloneOutcome(slot) ==
    LET inv == slot.inv
        abort == OtherError("AbortError", "AbortError: This operation was aborted")
        refused == OtherError("TypeError", "TypeError: fetch failed")
        broken == OtherError("TypeError", "TypeError: terminated")
        tried ==
            CASE slot.failed = "abort" -> Thrown(abort)
              [] slot.failed = "fetch" -> Thrown(refused)
              [] slot.failed = "body" -> Thrown(broken)
              [] slot.failed = "" /\ ~ResponseOk(slot.status) ->
                    IF inv.via = "logs" THEN Thrown(LogsHttpError(slot.status))
                    ELSE Thrown(HttpError(slot.status, inv.path, slot.text))
              [] OTHER ->
                    IF inv.via = "logs" THEN Demux(slot.buffer)
                    ELSE DecodeBody(slot.text, inv.raw)
    IN  IF inv.write /\ ~WriteEnabledArg(ctorArgs.writeEnabled)
        THEN Thrown(WriteDisabledError)
        ELSE Settle(inv, TryCatch(inv, tried, StripTrailingSlash(ctorArgs.baseUrl)))

\* C15: no step changes baseUrl, apiKey or writeEnabled; a step of one
\* caller's invocation (its timer firing included) leaves every other
\* caller's invocation as it was, and only an invocation whose own timer
\* fired is aborted; so each invocation ends as it would have alone.
C15_Isolation ==
    /\ [][ /\ baseUrl' = baseUrl /\ apiKey' = apiKey /\ writeEnabled' = writeEnabled
           /\ \A c, d \in Callers :
                 (c # d /\ slots'[c] # slots[c]) => slots'[d] = slots[d] ]_vars
    /\ [](\A c \in Callers :
            /\ slots[c].aborted <=> slots[c].timer = "fired"
            /\ slots[c].pc = "done" => slots[c].outcome = AloneOutcome(slots[c]))

\* the timer of a's request has fired while b's request was in flight, and
\* b's request went on to return its value
C15_Witness ==
    /\ slots["a"].pc = "done"
    /\ slots["a"].inv.op = "getStack"
    /\ slots["a"].timer = "fired"
    /\ IsClientError(slots["a"].outcome, <<"TIMEOUT">>)
    /\ slots["b"].pc = "done"
    /\ slots["b"].inv.op = "getStackFile"
    /\ slots["b"].timer = "cleared"
    /\ slots["b"].text = "{message:boom}"
    /\ slots["b"].outcome.kind = "value"

\* what request() throws for the remote behaviour the log fetch of `slot` met
RequestWouldThrow(slot) ==
    CASE slot.failed = "abort" ->
            RequestCatch(OtherError("AbortError", "AbortError: This operation was aborted"),
                         slot.inv.timeout, baseUrl)
      [] slot.failed = "fetch" ->
            RequestCatch(OtherError("TypeError", "TypeError: fetch failed"),
                         slot.inv.timeout, baseUrl)
      [] slot.failed = "body" ->
            RequestCatch(OtherError("TypeError", "TypeError: terminated"),
                         slot.inv.timeout, baseUrl)
      [] OTHER -> HttpError(slot.status, slot.inv.path, "")

\* C16 (as claimed): a failed getContainerLogs has the code and statusCode
\* request() gives for the same remote behaviour, and its message follows
\* the same rules: request()'s fixed phrase on 401, 403 and 404, and the
\* client's address in the message of a CONNECTION_ERROR.
C16_LogsMirrorRequest ==
    \A c \in Callers :
        ( /\ slots[c].pc = "done"
          /\ slots[c].inv.op = "getContainerLogs"
          /\ slots[c].outcome.kind = "throw" )
        => LET mine == slots[c].outcome.error
               theirs == RequestWouldThrow(slots[c])
           IN  /\ mine.class = theirs.class
               /\ mine.code = theirs.code
               /\ mine.statusCode = theirs.statusCode
               /\ slots[c].status \in {401, 403, 404} => mine.message = theirs.message
               /\ mine.code = <<"CONNECTION_ERROR">> => HasSubSeq(mine.message, baseUrl)

\* C17: on a success status whose body was read, request() returns the
\* empty object for an empty body, raw or not; for a non-empty body it
\* returns the text itself when raw is set, and the JSON value of the text
\* when raw is not set and the text is JSON.
C17_Decode ==
    \A c \in Callers :
        ( /\ slots[c].pc = "done"
          /\ slots[c].inv.via = "request"
          /\ ResponseOk(slots[c].status)
          /\ slots[c].failed = "" )
        => LET text == slots[c].text
           IN  /\ text = "" => slots[c].inner = Returned(EmptyObject)
               /\ (text # "" /\ slots[c].inv.raw) =>
                      /\ slots[c].inner.kind = "value"
                      /\ slots[c].inner.value.type = "string"
                      /\ slots[c].inner.value.text = text
               /\ (text # "" /\ ~slots[c].inv.raw /\ JsonParse(text).ok) =>
                      slots[c].inner = Returned(JsonParse(text).value)

\* raw mode, empty body: the sentinel, not the empty text
C17_Witness ==
    /\ slots["a"].pc = "done"
    /\ slots["a"].inv.op = "request"
    /\ slots["a"].inv.raw
    /\ slots["a"].status = 200
    /\ slots["a"].failed = ""
    /\ slots["a"].text = ""
    /\ slots["a"].inner = Returned(EmptyObject)

\* the constructor's base address ends with exactly one slash
SingleSlash(url) ==
    /\ Len(url) >= 1 /\ url[Len(url)] = "/"
    /\ Len(url) >= 2 => url[Len(url) - 1] # "/"

\* C18: baseUrl is the constructor's base address without its last
\* character when that is a slash, and unchanged otherwise; the address of
\* every call is baseUrl, "/api", then the path; and when the base address
\* ended with a single slash no address contains "//api".
C18_TargetAddress ==
    LET given == ctorArgs.baseUrl
        n == Len(given)
    IN  /\ baseUrl = IF n > 0 /\ given[n] = "/" THEN [i \in 1..(n - 1) |-> given[i]] ELSE given
        /\ \A c \in Callers : \A k \in 1..Len(slots[c].sent) :
              LET url == slots[c].sent[k].url
              IN  /\ url = baseUrl \o <<"/api">> \o slots[c].inv.path
                  /\ SingleSlash(given) =>
                        ~\E i \in 1..(Len(url) - 1) : url[i] = "/" /\ url[i + 1] = "/api"

\* a base address with one trailing slash, and a call sent
C18_Witness ==
    /\ ctorArgs.baseUrl = <<"h", "/">>
    /\ baseUrl = <<"h">>
    /\ slots["a"].inv.op = "getEnvironments"
    /\ Len(slots["a"].sent) = 1
    /\ slots["a"].sent[1].url = <<"h", "/api", "/endpoints">>

ReadOps ==
    { "getEnvironments", "getEnvironment", "getContainers", "inspectContainer",
      "getContainerLogs", "getContainerStats", "getStacks", "getStack", "getStackFile",
      "getStackByName", "getImages", "getVolumes", "getNetworks", "getDashboard",
      "getSystemInfo", "getSystemVersion", "getRegistries" }

\* C19: whatever the write flag, a read operation that was called has
\* issued its network request and has not failed with WRITE_DISABLED.
C19_ReadsAvailable ==
    \A c \in Callers :
        (slots[c].inv.op \in ReadOps /\ slots[c].pc # "idle") =>
            /\ Len(slots[c].sent) = 1
            /\ slots[c].sent[1].method = "GET"
            /\ ~IsClientError(slots[c].outcome, <<"WRITE_DISABLED">>)

\* a read on a client with write disabled that has returned its value
C19_Witness ==
    /\ ~writeEnabled
    /\ slots["a"].pc = "done"
    /\ slots["a"].inv.op = "getStackFile"
    /\ Len(slots["a"].sent) = 1
    /\ slots["a"].outcome.kind = "value"

\* the message the claim gives for an error body
BodyMessage(status, text) ==
    CASE text \in {"{message:boom}", "{message:boom,details:why}"} -> <<"boom">>
      [] text \in {"{details:why}", "{message:'',details:why}"} -> <<"why">>
      [] OTHER -> <<"Portainer API error: ", ToString(status)>>

\* C20: for a non-success status other than 401, 403 and 404 whose body was
\* read, request() fails with HTTP_<status>, that statusCode, and as its
\* message the body's message if non-empty, else its details if non-empty,
\* else "Portainer API error: <status>".
C20_BodyMessage ==
    \A c \in Callers :
        ( /\ slots[c].pc = "done"
          /\ slots[c].inv.via = "request"
          /\ slots[c].sent # <<>>
          /\ slots[c].status # 0
          /\ ~ResponseOk(slots[c].status)
          /\ slots[c].status \notin {401, 403, 404}
          /\ slots[c].failed = "" )
        => /\ IsClientError(slots[c].inner, HttpCode(slots[c].status))
           /\ slots[c].inner.error.statusCode = Some(slots[c].status)
           /\ slots[c].inner.error.message = BodyMessage(slots[c].status, slots[c].text)

\* an empty message, so the details are the message
C20_Witness ==
    /\ slots["a"].pc = "done"
    /\ slots["a"].inv.via = "request"
    /\ slots["a"].status = 500
    /\ slots["a"].text = "{message:'',details:why}"
    /\ slots["a"].inner.error.message = <<"why">>

\* the body of caller c was demultiplexed frame by frame (not passed through)
Multiplexed(c) ==
    /\ LogsReturned(c)
    /\ slots[c].buffer # <<>>
    /\ slots[c].buffer[1] <= 2

\* the frames that declare at least one byte
NonZero(f) == f.declared # 0

\* C21: in a body of complete frames, a frame of declared length zero adds
\* no text and does not end the loop: the loop head is reached again right
\* after its 8-byte header, and the result is the text of all the other
\* frames, those after it included.
C21_ZeroLengthFrame ==
    \A c \in Callers :
        LET fs == slots[c].frames
            buffer == slots[c].buffer
        IN  ( /\ Multiplexed(c)
              /\ buffer = EncodeFrames(fs)
              /\ \A i \in 1..Len(fs) : Complete(fs[i]) )
            => /\ slots[c].outcome = Returned(LogText(PayloadText(SelectSeq(fs, NonZero))))
               /\ \A k \in 1..Len(fs) :
                     fs[k].declared = 0 =>
                        \E i \in 1..Len(LoopHeads(buffer, 0)) :
                            LoopHeads(buffer, 0)[i] = Len(EncodeFrames(SubSeq(fs, 1, k)))

\* an empty frame first, then a frame with text
C21_Witness ==
    /\ Multiplexed("a")
    /\ slots["a"].frames = << [tag |-> 1, declared |-> 0, payload |-> <<>>],
                              [tag |-> 2, declared |-> 1, payload |-> <<97>>] >>
    /\ slots["a"].outcome.value.chars = <<97>>

\* C22: when the body is complete frames followed by fewer than 8 bytes
\* (a whole body shorter than 8 bytes whose first byte is at most 2 is the
\* case of no frame), the result is the text of the frames, the bytes after
\* them are not in it, and nothing is thrown.
C22_TrailingDropped ==
    \A c \in Callers :
        LET fs == slots[c].frames
            buffer == slots[c].buffer
            framed == EncodeFrames(fs)
        IN  ( /\ slots[c].pc = "done"
              /\ slots[c].inv.op = "getContainerLogs"
              /\ ResponseOk(slots[c].status)
              /\ slots[c].failed = ""
              /\ buffer # <<>> /\ buffer[1] <= 2
              /\ Len(buffer) >= Len(framed)
              /\ SubSeq(buffer, 1, Len(framed)) = framed
              /\ Len(buffer) - Len(framed) < HeaderSize
              /\ \A i \in 1..Len(fs) : Complete(fs[i]) )
            => slots[c].outcome = Returned(LogText(PayloadText(fs)))

\* one complete frame with text, and two more bytes after it
C22_Witness ==
    /\ Multiplexed("a")
    /\ slots["a"].frames = << [tag |-> 1, declared |-> 1, payload |-> <<97>>] >>
    /\ slots["a"].buffer = <<1, 0, 0, 0, 0, 0, 0, 1, 97, 1, 127>>
    /\ slots["a"].outcome.value.chars = <<97>>

\* C23: the loop of stripDockerLogHeaders ends.  The values of offset at
\* the loop head are within 0..length, each at least 8 above the one
\* before, and the headers read are at most floor(length / 8).
C23_LoopTerminates ==
    \A c \in Callers :
        Multiplexed(c) =>
            LET buffer == slots[c].buffer
                heads == LoopHeads(buffer, 0)
                read == { i \in 1..Len(heads) : heads[i] + HeaderSize <= Len(buffer) }
            IN  /\ heads[1] = 0
                /\ \A i \in 1..Len(heads) : 0 <= heads[i] /\ heads[i] <= Len(buffer)
                /\ \A i \in 1..(Len(heads) - 1) : heads[i + 1] >= heads[i] + HeaderSize
                /\ Cardinality(read) <= Len(buffer) \div HeaderSize

\* two empty frames: 16 bytes, two headers read, three loop heads
C23_Witness ==
    /\ Multiplexed("a")
    /\ Len(slots["a"].buffer) = 16
    /\ LoopHeads(slots["a"].buffer, 0) = <<0, 8, 16>>

\* the payload bytes of the frames, joined in order
PayloadBytes(fs) == Flatten([i \in 1..Len(fs) |-> fs[i].payload])

\* C24 (as claimed): for a body of complete frames the result is the UTF-8
\* decoding of the payload bytes of all frames joined, whatever the split
\* of those bytes into frames.
C24_DecodeJoinedBytes ==
    \A c \in Callers :
        LET fs == slots[c].frames
        IN  ( /\ Multiplexed(c)
              /\ slots[c].buffer = EncodeFrames(fs)
              /\ \A i \in 1..Len(fs) : Complete(fs[i]) )
            => slots[c].outcome = Returned(LogText(Utf8Decode(PayloadBytes(fs))))

\* C25: with write enabled a called containerAction has issued one call:
\* DELETE .../containers/<id>?force=true for remove, POST
\* .../containers/<id>/<action> for start, stop, restart and kill, with no
\* body; with write disabled it was rejected with no call built and no
\* timer set.
C25_ContainerAction ==
    \A c \in Callers :
        (slots[c].inv.op = "containerAction" /\ slots[c].pc # "idle") =>
            LET envId == slots[c].inv.args[1]
                containerId == slots[c].inv.args[2]
                action == slots[c].inv.args[3]
                container == baseUrl \o <<"/api", "/endpoints/", ToString(envId),
                                           "/docker/containers/", containerId>>
            IN  IF writeEnabled
                THEN /\ Len(slots[c].sent) = 1
                     /\ slots[c].sent[1].body = Undefined
                     /\ action = "remove" =>
                            /\ slots[c].sent[1].method = "DELETE"
                            /\ slots[c].sent[1].url = container \o <<"?force=true">>
                     /\ action \in {"start", "stop", "restart", "kill"} =>
                            /\ slots[c].sent[1].method = "POST"
                            /\ slots[c].sent[1].url = container \o <<"/", action>>
                ELSE /\ slots[c].sent = <<>>
                     /\ slots[c].timer = "none"
                     /\ IsClientError(slots[c].outcome, <<"WRITE_DISABLED">>)

\* remove on a write-enabled client
C25_Witness ==
    /\ writeEnabled
    /\ slots["a"].inv.op = "containerAction"
    /\ slots["a"].inv.args[3] = "remove"
    /\ Len(slots["a"].sent) = 1
    /\ slots["a"].sent[1].method = "DELETE"
    /\ slots["a"].pc = "done"
    /\ slots["a"].outcome = Returned(UndefinedValue)

\* the invocation of caller c has been started and has not ended
InFlight(c) == slots[c].pc \in {"fetch", "body", "errorBody", "bytes"}

\* C26 (as claimed): given that a pending timer eventually fires, every
\* invocation in flight eventually ends, wherever the remote stalls: before
\* it responds or while the body is read.
C26_EventuallyCompletes == InFlight("a") ~> (slots["a"].pc = "done")

\* the part that holds: a call whose fetch is pending does not stay so
C26_FetchEnds == (slots["a"].pc = "fetch") ~> (slots["a"].pc # "fetch")

\* C27: a success response whose body is not empty and not JSON, read
\* with raw unset, makes request() throw a PortainerClientError with code
\* CONNECTION_ERROR and no statusCode; the parse exception does not escape.
C27_InvalidJson ==
    \A c \in Callers :
        ( /\ slots[c].pc = "done"
          /\ slots[c].inv.via = "request"
          /\ ResponseOk(slots[c].status)
          /\ slots[c].failed = ""
          /\ slots[c].text # ""
          /\ ~slots[c].inv.raw
          /\ ~JsonParse(slots[c].text).ok )
        => /\ IsClientError(slots[c].inner, <<"CONNECTION_ERROR">>)
           /\ slots[c].inner.error.statusCode = Undefined
           /\ slots[c].outcome = slots[c].inner

\* request() called with raw = false and answered 200 with "not json"
C27_Witness ==
    /\ slots["a"].pc = "done"
    /\ slots["a"].inv.op = "request"
    /\ ~slots["a"].inv.raw
    /\ slots["a"].status = 200
    /\ slots["a"].failed = ""
    /\ slots["a"].text = "not json"
    /\ IsClientError(slots["a"].inner, <<"CONNECTION_ERROR">>)

\* C28 (as claimed): however the fetch of the collection ended, an empty
\* success body included, a getStackByName that has ended either returned
\* a stack of the collection or threw a PortainerClientError.
C28_LookupClassified ==
    \A c \in Callers :
        (slots[c].pc = "done" /\ slots[c].inv.op = "getStackByName") =>
            \/ /\ slots[c].outcome.kind = "value"
               /\ \E i \in 1..Len(slots[c].inner.value.items) :
                     slots[c].outcome.value = StackValue(slots[c].inner.value.items[i])
            \/ /\ slots[c].outcome.kind = "throw"
               /\ slots[c].outcome.error.class = "PortainerClientError"


\* the response handleToolCall resolved with
ToolResult == tool.result.response[1]

\* C29: handleToolCall never throws: for an unregistered tool name it
\* returns a response with isError true whose text contains "Unknown tool"
\* without calling the client; any error a handler raised (validation
\* failure, PortainerClientError of any code, other exception) becomes a
\* response with isError true and text "Error: <message>"; a response
\* without isError is returned only when the handler completed successfully
C29_ToolCallNeverThrows ==
    tool.pc = "done" =>
        /\ tool.result.do = "return"
        /\ tool.name \notin RegisteredTools =>
              /\ ToolResult.isError = Some(TRUE)
              /\ \E i \in 1..Len(ToolResult.content[1]) :
                     ToolResult.content[1][i] = "Unknown tool: "
              /\ tool.calls = <<>>
        /\ tool.handler.do = "throw" =>
              /\ ToolResult.isError = Some(TRUE)
              /\ ToolResult.content = << <<"Error: ">> \o tool.handler.error.message >>
        /\ ToolResult.isError = Undefined => tool.handler.do = "return"

\* the stack the lookup of get_stack_by_name resolved with
FoundStack == tool.results[1].value.stack

\* C30: in get_stack_by_name the two remote calls are strictly ordered: the
\* collection fetch comes first and has completed when the stack-file fetch
\* is issued, the stack-file fetch is issued only after a stack with the
\* exact name was found and is for that stack's Id, and a lookup that
\* failed (NOT_FOUND or a fetch error) is followed by no request at all
C30_StackFileAfterLookup ==
    tool.name = "get_stack_by_name" =>
        /\ Len(tool.calls) <= 2
        /\ Len(tool.calls) >= 1 => tool.calls[1] = getStackByName(tool.args.name[1])
        /\ (Len(tool.calls) = 1 /\ tool.pc = "await") =>
              slots["a"].sent = <<FetchCall(getStacks, baseUrl, apiKey)>>
        /\ Len(tool.calls) = 2 =>
              /\ tool.results # <<>>
              /\ tool.results[1].kind = "value"
              /\ FoundStack # <<>>
              /\ FoundStack[1].Name = tool.args.name[1]
              /\ tool.calls[2] = getStackFile(FoundStack[1].Id)
              /\ tool.pc = "await" =>
                    slots["a"].sent = <<FetchCall(getStackFile(FoundStack[1].Id),
                                                  baseUrl, apiKey)>>
        /\ (tool.results # <<>> /\ tool.results[1].kind = "throw") =>
              /\ Len(tool.calls) = 1
              /\ tool.pc = "done"
              /\ slots["a"].sent = <<>>
              /\ ToolResult.isError = Some(TRUE)

\* the file of the second stack of the list was fetched and the tool
\* answered with it
C30_Witness ==
    /\ tool.pc = "done"
    /\ tool.name = "get_stack_by_name"
    /\ Len(tool.calls) = 2
    /\ FoundStack[1].Id = 2
    /\ ToolResult.isError = Undefined
    /\ Len(ToolResult.content) = 2

====
